---- MODULE Spec2Model ----
(***************************************************************************)
(* ghastoolkit.octokit: the REST/GraphQL request engine.                   *)
(*                                                                         *)
(* RestRequest.get (rate limited, paginated), RestRequest.postJson, the    *)
(* RestRequest.restGet binding, Octokit.route, GraphQLRequest.query and    *)
(* CodeScanning.downloadSARIF as one state machine (Spec): a caller starts *)
(* an operation, the operation runs step by step against a server that is *)
(* free to answer anything, and the caller collects the outcome.           *)
(* SpecRoute applies Octokit.route to arguments of its own; SpecThreads    *)
(* has several threads call get at once through the shared rate limiter.   *)
(***************************************************************************)
EXTENDS Integers, Sequences, FiniteSets, TLC

VARIABLES
    token,          \* GitHub.token: None or the configured credential
    headers,        \* RestRequest.session.headers, one mapping per executor
    queries,        \* GraphQLRequest.queries: name -> template
    now,            \* the clock the rate limiter reads (seconds)
    num_calls,      \* ratelimit.limits.num_calls of the decorator on get
    last_reset,     \* ratelimit.limits.last_reset of the decorator on get
    reqLog,         \* time -> number of HTTP GETs begun, trailing period only
    defaultParams,  \* the one dict object behind get's `parameters: dict = {}`
    calls,          \* operations started so far
    pc,             \* position of the running operation
    call,           \* the running operation and its arguments
    params,         \* the dict object get names `params` (= `parameters`)
    url,            \* get's local `url`
    page,           \* get's local `page`
    result,         \* get's local `result`
    sent,           \* HTTP requests issued by the running operation
    served,         \* responses the server gave to the running operation
    gatePasses,     \* times the running operation got through the limiter
    sleepFor,       \* RateLimitException.period_remaining being slept
    getOutcome,     \* what rest.get handed to the restGet wrapper
    outcome,        \* what the operation handed to its caller
    threads         \* threads calling get at once: each one's position

vars == <<token, headers, queries, now, num_calls, last_reset, reqLog,
          defaultParams, calls, pc, call, params, url, page, result, sent,
          served, gatePasses, sleepFor, getOutcome, outcome, threads>>

---------------------------------------------------------------------------
(* Program constants *)

REST_MAX_CALLS == 80
RATE_PERIOD == 60
PER_PAGE == 100
DEFAULT_EXPECTED == 200
GRAPHQL_OK == 200
AUTH_STATUS == 401

(* Bounds of the model *)

MaxCalls == 2       \* operations a behaviour starts
MaxFullPages == 2   \* full pages the server gives one get call
MaxTime == 60       \* idle time is let pass up to here

---------------------------------------------------------------------------
(* Python values, tagged by type *)

None == [py |-> "None"]
PyStr(s) == [py |-> "str", v |-> s]
PyInt(i) == [py |-> "int", v |-> i]
PyList(s) == [py |-> "list", v |-> s]
PyDict(f) == [py |-> "dict", v |-> f]
NonJson == [py |-> "nonjson"]     \* a body Response.json() cannot decode

EmptyMap == [k \in {} |-> None]

\* bool(v)
Truthy(v) ==
    CASE v.py = "None" -> FALSE
      [] v.py = "str"  -> v.v /= ""
      [] v.py = "int"  -> v.v /= 0
      [] v.py = "list" -> Len(v.v) > 0
      [] v.py = "dict" -> DOMAIN v.v /= {}
      [] OTHER         -> TRUE

\* str(v), as format() and f-strings render it
PyToStr(v) ==
    CASE v.py = "None" -> "None"
      [] v.py = "str"  -> v.v
      [] v.py = "int"  -> ToString(v.v)
      [] OTHER         -> "<object>"

\* d.get(k) on a mapping
MapGet(d, k) == IF k \in DOMAIN d THEN d[k] ELSE None

\* d[k] = v on a mapping
MapSet(d, k, v) == [x \in (DOMAIN d) \cup {k} |-> IF x = k THEN v ELSE d[x]]

\* isinstance(v, dict)
IsDict(v) == v.py = "dict"

\* len(v) of a list or dict
PyLen(v) == IF v.py = "list" THEN Len(v.v) ELSE Cardinality(DOMAIN v.v)

\* list(v): the elements a list.extend(v) appends
PyIter(v) == IF v.py = "list" THEN v.v ELSE <<>>

---------------------------------------------------------------------------
(* Repository context, executors, credentials *)

NoRepo == [owner |-> "", repo |-> "", reference |-> ""]
RepoAB == [owner |-> "A", repo |-> "B", reference |-> "refs/pull/1/merge"]

\* `if not repo`
RepoSet(r) == r /= NoRepo

\* GitHub.api_rest, GitHub.api_graphql
ApiRest == "https://api.github.com"
ApiGraphql == "https://api.github.com/graphql"

\* GitHub.repository: the process never ran GitHub.init
GhRepository == NoRepo

\* Executor 1 is CodeScanning.rest and executor 2 a RestRequest(repository) of
\* another caller; executor 3 is a bare RestRequest().
Execs == {1, 2, 3}
RepoCD == [owner |-> "C", repo |-> "D", reference |-> ""]
Repository(e) ==
    LET given == CASE e = 1 -> RepoAB [] e = 2 -> RepoCD [] OTHER -> NoRepo
    IN IF RepoSet(given) THEN given ELSE GhRepository

Tokens == {None, PyStr("ghp_secret")}

\* f"token {GitHub.token}": the literal followed by str(token)
AuthorizationHeader(tok) == <<"token ", PyToStr(tok)>>

\* bool(s) of a string held as its pieces
StrTruthy(s) == \E i \in 1..Len(s) : s[i] /= ""

\* RestRequest.__init__: session.headers
InitHeaders(tok) ==
    [Accept |-> <<"application/vnd.github.v3+json">>,
     Version |-> <<"2022-11-28">>,
     Authorization |-> AuthorizationHeader(tok)]

---------------------------------------------------------------------------
(* Octokit.route / Octokit.formatPath *)

\* A path template is a sequence of pieces: literal text or a {placeholder}.
Lit(s) == [lit |-> s]
Ph(n) == [ph |-> n]
IsPh(x) == "ph" \in DOMAIN x

PathOrgAlerts ==
    <<Lit("/"), Lit("orgs/"), Ph("org"), Lit("/code-scanning/alerts")>>
PathAlerts ==
    <<Lit("/"), Lit("repos/"), Ph("owner"), Lit("/"), Ph("repo"),
      Lit("/code-scanning/alerts")>>
PathAlert ==
    <<Lit("/"), Lit("repos/"), Ph("owner"), Lit("/"), Ph("repo"),
      Lit("/code-scanning/alerts/"), Ph("alert_number")>>
PathInstances ==
    <<Lit("/"), Lit("repos/"), Ph("owner"), Lit("/"), Ph("repo"),
      Lit("/code-scanning/alerts/"), Ph("alert_number"), Lit("/instances")>>
PathDatabases ==
    <<Lit("/"), Lit("repos/"), Ph("owner"), Lit("/"), Ph("repo"),
      Lit("/code-scanning/codeql/databases")>>
PathAnalysis ==
    <<Lit("/"), Lit("repos/"), Ph("org"), Lit("/"), Ph("repo"),
      Lit("/code-scanning/analyses/"), Ph("sarif_id")>>

ContextKeys == {"owner", "org", "repo"}

\* The keyword arguments of path.format(owner=, org=, repo=, **options)
FormatArgs(repo, options) ==
    [k \in ContextKeys \cup DOMAIN options |->
        IF k \in {"owner", "org"} THEN PyStr(repo.owner)
        ELSE IF k = "repo" THEN PyStr(repo.repo)
        ELSE options[k]]

\* Octokit.formatPath: err is "TypeError" when options repeats a context
\* keyword, "KeyError" when a placeholder has no value, else "" and pieces is
\* the formatted string.
formatPath(path, repo, options) ==
    IF DOMAIN options \cap ContextKeys /= {}
    THEN [err |-> "TypeError", pieces |-> <<>>]
    ELSE IF \E i \in 1..Len(path) :
                IsPh(path[i]) /\ path[i].ph \notin ContextKeys \cup DOMAIN options
         THEN [err |-> "KeyError", pieces |-> <<>>]
         ELSE [err |-> "",
               pieces |-> [i \in 1..Len(path) |->
                  IF IsPh(path[i])
                  THEN PyToStr(FormatArgs(repo, options)[path[i].ph])
                  ELSE path[i].lit]]

\* formatted_path.startswith("/"): the first non-empty piece is "/" (no
\* substituted value of the model begins with a slash)
StartsWithSlash(pieces) ==
    \E i \in 1..Len(pieces) :
        /\ pieces[i] = "/"
        /\ \A j \in 1..(i - 1) : pieces[j] = ""

\* route that leaves the formatted path as it is
routeNoSlash(path, repo, rtype, options) ==
    LET formatted_path == formatPath(path, repo, options) IN
    IF formatted_path.err /= "" THEN formatted_path
    ELSE LET origin == IF rtype = "rest" THEN ApiRest ELSE ApiGraphql
         IN [err |-> "", pieces |-> <<origin>> \o formatted_path.pieces]

\* Octokit.route
route(path, repo, rtype, options) ==
    LET formatted_path == formatPath(path, repo, options) IN
    IF formatted_path.err /= "" THEN formatted_path
    ELSE LET slashed == IF StartsWithSlash(formatted_path.pieces)
                        THEN formatted_path.pieces
                        ELSE <<"/">> \o formatted_path.pieces
             origin == IF rtype = "rest" THEN ApiRest ELSE ApiGraphql
         IN [err |-> "", pieces |-> <<origin>> \o slashed]

---------------------------------------------------------------------------
(* Methods bound with RestRequest.restGet, and Python's call binding *)

\* What inspect.getfullargspec gives for the bound method, with its url and flag.
\* `defaults` belongs to the last len(defaults) names of `args`.
GetAlertsFunc ==
    [name |-> "getAlerts", url |-> PathAlerts, authenticated |-> TRUE,
     args |-> <<"self", "state", "tool_name", "ref">>,
     defaults |-> <<PyStr("open"), None, None>>,
     varkw |-> FALSE, ret |-> PyList(<<>>)]
GetAlertFunc ==
    [name |-> "getAlert", url |-> PathAlert, authenticated |-> TRUE,
     args |-> <<"self", "alert_number">>,
     defaults |-> <<>>,
     varkw |-> FALSE, ret |-> PyDict(EmptyMap)]
\* Two methods that declare `response` to post-process the raw result
CountAlertsFunc ==
    [name |-> "countAlerts", url |-> PathAlerts, authenticated |-> FALSE,
     args |-> <<"self", "response">>,
     defaults |-> <<>>,
     varkw |-> FALSE, ret |-> None]
SummaryFunc ==
    [name |-> "summary", url |-> PathAlerts, authenticated |-> FALSE,
     args |-> <<"self", "state", "response">>,
     defaults |-> <<PyStr("open"), None>>,
     varkw |-> TRUE, ret |-> None]
NoFunc ==
    [name |-> "", url |-> <<>>, authenticated |-> FALSE, args |-> <<>>,
     defaults |-> <<>>, varkw |-> FALSE, ret |-> None]

\* Declared parameter names other than self
Declared(f) == {f.args[i] : i \in 2..Len(f.args)}
ArgIndex(f, n) == CHOOSE i \in 1..Len(f.args) : f.args[i] = n
HasDefault(f, n) == ArgIndex(f, n) > Len(f.args) - Len(f.defaults)
DefaultOf(f, n) == f.defaults[ArgIndex(f, n) - (Len(f.args) - Len(f.defaults))]

\* seq[i] with Python's zero-based index
PyIndex(seq, i) == seq[i + 1]

\* The loop of wrap over func_info.args: the parameter map it builds.
RECURSIVE WrapParams(_, _, _, _, _)
WrapParams(argnames, args, defaults, args_index, acc) ==
    IF argnames = <<>> THEN acc
    ELSE LET argv == Head(argnames) IN
         IF argv = "self"
         THEN WrapParams(Tail(argnames), args, defaults, args_index, acc)
         ELSE LET provided == IF Len(args) > args_index
                              THEN PyIndex(args, args_index) ELSE None
                  argv_value == IF ~Truthy(provided) /\ Len(defaults) < 0
                                THEN PyIndex(defaults, Len(defaults) - args_index)
                                ELSE provided
              IN WrapParams(Tail(argnames), args, defaults, args_index + 1,
                            MapSet(acc, argv, argv_value))

\* `response` is declared by the bound method
DeclaresResponse(f) == "response" \in Declared(f)

\* The keywords of func(self, responce=result, **kwargs)
WrapKeywords(res, kwargs) == MapSet(kwargs, "responce", res)

\* Python binding keywords to the method's parameters: TypeError on an
\* unexpected keyword (no **kwargs declared) or a parameter left without value.
BindCall(f, keywords) ==
    LET unexpected == DOMAIN keywords \ Declared(f)
        missing == {n \in Declared(f) : n \notin DOMAIN keywords /\ ~HasDefault(f, n)}
    IN IF (unexpected /= {} /\ ~f.varkw) \/ missing /= {}
       THEN [err |-> "TypeError", bound |-> EmptyMap]
       ELSE [err |-> "",
             bound |-> [n \in Declared(f) |->
                          IF n \in DOMAIN keywords THEN keywords[n]
                          ELSE DefaultOf(f, n)]]

\* What the body of a method that post-processes `response` returns
Processed(v) == [py |-> "processed", v |-> v]
Body(f, bound) ==
    IF "response" \in DOMAIN bound THEN Processed(bound["response"]) ELSE f.ret

---------------------------------------------------------------------------
(* The server: free to answer any status with any body *)

\* 201 is the unknown non-expected status of a call that expects 200, and 200
\* that of a call that expects 201.
Statuses == {200, 201, AUTH_STATUS}

Elem(p, i) == <<p, i>>
ArrayBody(p, n) == PyList([i \in 1..n |-> Elem(p, i)])
PageLens == {0, PER_PAGE - 1, PER_PAGE}

ObjPlain == PyDict([number |-> PyInt(7)])
ObjBig == PyDict([k \in {ToString(i) : i \in 1..PER_PAGE} |-> PyInt(0)])
ObjErrors ==
    PyDict([message |-> PyStr("Validation Failed"),
            errors |-> PyList(<<PyStr("bad ref")>>)])
ObjErrorsEmpty ==
    PyDict([message |-> PyStr("ok"), errors |-> PyList(<<>>)])
ObjBodies == {ObjPlain, ObjBig, ObjErrors, ObjErrorsEmpty}

\* Bodies for page p of a GET: a full page only while p <= MaxFullPages
RestBodies(p) ==
    {NonJson} \cup ObjBodies
    \cup {ArrayBody(p, n) : n \in {m \in PageLens : m = PER_PAGE => p <= MaxFullPages}}

PostBodies == {NonJson, ObjPlain, ObjErrors}

\* Bodies for the analysis a SARIF download asks for: the document, an error
\* envelope, or no JSON
SarifBodies == {NonJson, ObjPlain, ObjErrors}

GqlData == PyDict([repository |-> PyStr("partial")])
GqlError == PyDict([message |-> PyStr("Field not found")])
GqlErrorBare == PyDict([path |-> PyStr("repository")])
GraphQLBodies ==
    {NonJson,
     PyDict([data |-> GqlData]),
     PyDict([data |-> GqlData, errors |-> PyList(<<GqlError, GqlErrorBare>>)]),
     PyDict([errors |-> PyList(<<GqlError>>)])}

---------------------------------------------------------------------------
(* Outcomes and error messages *)

NoOutcome == [kind |-> "none"]
Returned(v) == [kind |-> "return", value |-> v]
Raised(e) == [kind |-> "raise", error |-> e]

ERR_REPOSITORY == "Repository needs to be set"
ERR_TOKEN == "GitHub Token required for this request"
ERR_AUTH == "Authentication Issue"
ERR_STATUS == "REST Request failed :: non-expected server error"
ERR_SERVER == "REST Request failed :: error from server"
ERR_POST == "Failed to post data"
ERR_GRAPHQL == "Failed to get data from GraphQL API"
ERR_JSON == "JSONDecodeError"

\* __OCTOKIT_ERRORS__.get(status): "" stands for None
OCTOKIT_ERRORS(status) == IF status = AUTH_STATUS THEN ERR_AUTH ELSE ""

\* The exception a response of a non-expected status raises
StatusError(status, generic) ==
    LET known_error == OCTOKIT_ERRORS(status) IN
    IF known_error /= "" THEN Raised(known_error) ELSE Raised(generic)

---------------------------------------------------------------------------
(* The callers: what an operation is started with *)

\* rest.get as the methods of CodeScanning call it, and one caller of its own
\* that expects 201 and brings a `page` entry along.
GetCalls ==
    {[site |-> "getOrganizationAlerts", exec |-> 1, path |-> PathOrgAlerts,
      omitted |-> FALSE, argument |-> [state |-> PyStr("open")],
      expected |-> DEFAULT_EXPECTED, authenticated |-> TRUE],
     [site |-> "getAlertInstances", exec |-> 1, path |-> PathInstances,
      omitted |-> FALSE, argument |-> [alert_number |-> PyInt(7), ref |-> None],
      expected |-> DEFAULT_EXPECTED, authenticated |-> FALSE],
     [site |-> "getCodeQLDatabases", exec |-> 1, path |-> PathDatabases,
      omitted |-> TRUE, argument |-> EmptyMap,
      expected |-> DEFAULT_EXPECTED, authenticated |-> FALSE],
     [site |-> "caller", exec |-> 2, path |-> PathAlerts,
      omitted |-> FALSE,
      argument |-> [state |-> PyStr("closed"), page |-> PyInt(5),
                    per_page |-> PyInt(30)],
      expected |-> 201, authenticated |-> TRUE],
     [site |-> "caller", exec |-> 3, path |-> PathAlert,
      omitted |-> TRUE, argument |-> EmptyMap,
      expected |-> DEFAULT_EXPECTED, authenticated |-> FALSE]}

\* Calls of methods bound with restGet
BoundCalls ==
    {[func |-> GetAlertsFunc, args |-> <<>>, kwargs |-> EmptyMap],
     [func |-> GetAlertsFunc, args |-> <<PyStr("closed")>>, kwargs |-> EmptyMap],
     [func |-> GetAlertsFunc, args |-> <<PyStr("open")>>,
      kwargs |-> [ref |-> PyStr(RepoAB.reference)]],
     [func |-> GetAlertFunc, args |-> <<PyInt(7)>>, kwargs |-> EmptyMap],
     [func |-> CountAlertsFunc, args |-> <<>>, kwargs |-> EmptyMap],
     [func |-> SummaryFunc, args |-> <<PyStr("closed")>>, kwargs |-> EmptyMap]}

PostCalls ==
    {[exec |-> 1, path |-> PathAlerts, data |-> [state |-> PyStr("dismissed")],
      expected |-> DEFAULT_EXPECTED],
     [exec |-> 2, path |-> PathAlert, data |-> EmptyMap, expected |-> 201],
     [exec |-> 3, path |-> PathAlerts, data |-> EmptyMap,
      expected |-> DEFAULT_EXPECTED]}

\* GraphQLRequest.queries after loadQueries: a template is its text and the
\* $variables in it; an empty file gives the empty text.
LoadedQueries ==
    [GetDependencyAlerts |-> [text |-> "query { repository(owner: $owner, name: $repo) }",
                              variables |-> {"owner", "repo"}],
     Empty |-> [text |-> "", variables |-> {}]]
QueryNames == {"GetDependencyAlerts", "Empty", "GetUnknown"}
QueryOptions == {[owner |-> PyStr("A"), repo |-> PyStr("B")], [owner |-> PyStr("A")]}

\* CodeScanning.downloadSARIF(output, sarif_id): the analyses asked for, the
\* media type of the download, and whether open(output, "w") works
SarifIds == {3}
SarifAccept == <<"application/sarif+json">>
FileWrites == {TRUE, FALSE}
ERR_FILE == "OSError"
PyTrue == [py |-> "bool", v |-> TRUE]

NoCall ==
    [op |-> "", site |-> "", exec |-> 0, path |-> <<>>, omitted |-> FALSE,
     argument |-> EmptyMap, expected |-> 0, authenticated |-> FALSE,
     func |-> NoFunc, args |-> <<>>, kwargs |-> EmptyMap, og_accept |-> <<>>]

---------------------------------------------------------------------------
(* The request log: HTTP GETs begun in the trailing period *)

Prune(log, t) == [u \in {x \in DOMAIN log : x > t - RATE_PERIOD} |-> log[u]]
LogAdd(log, t) ==
    [u \in (DOMAIN log) \cup {t} |->
        (IF u \in DOMAIN log THEN log[u] ELSE 0) + (IF u = t THEN 1 ELSE 0)]

RECURSIVE SumOver(_, _)
SumOver(log, S) ==
    IF S = {} THEN 0
    ELSE LET u == CHOOSE x \in S : TRUE IN log[u] + SumOver(log, S \ {u})

\* HTTP GETs begun in (now - period, now]
WindowCount == SumOver(reqLog, DOMAIN reqLog)

---------------------------------------------------------------------------
(* Initial state *)

\* The model of one caller at a time has no other thread
NoThreads == <<>>

\* GETs the process has already made in the current period when the behaviour
\* starts, each of one request (a single resource): none, or one short of the
\* quota.
WarmCalls == {0, REST_MAX_CALLS - 1}

Init ==
    /\ token \in Tokens
    /\ headers = [e \in Execs |-> InitHeaders(token)]
    /\ queries = LoadedQueries
    /\ now = 0
    /\ last_reset = 0
    /\ num_calls \in WarmCalls
    /\ reqLog = IF num_calls = 0 THEN EmptyMap ELSE [u \in {0} |-> num_calls]
    /\ defaultParams = EmptyMap
    /\ calls = 0
    /\ pc = "idle"
    /\ call = NoCall
    /\ params = EmptyMap
    /\ url = <<>>
    /\ page = 0
    /\ result = <<>>
    /\ sent = <<>>
    /\ served = <<>>
    /\ gatePasses = 0
    /\ sleepFor = 0
    /\ getOutcome = NoOutcome
    /\ outcome = NoOutcome
    /\ threads = NoThreads

limiterVars == <<now, num_calls, last_reset, sleepFor, gatePasses>>
processVars == <<token, headers, queries, threads>>
getLocals == <<url, page, result, getOutcome>>

---------------------------------------------------------------------------
(* Starting an operation *)

\* A caller calls rest.get(path, parameters, expected, authenticated): the
\* call enters the decorators of get.
CallGet(c) ==
    /\ pc = "idle"
    /\ calls < MaxCalls
    /\ calls' = calls + 1
    /\ call' = [NoCall EXCEPT !.op = "get", !.site = c.site, !.exec = c.exec,
                              !.path = c.path, !.omitted = c.omitted,
                              !.argument = c.argument, !.expected = c.expected,
                              !.authenticated = c.authenticated]
    /\ params' = IF c.omitted THEN defaultParams ELSE c.argument
    /\ pc' = "gate"
    /\ UNCHANGED <<processVars, limiterVars, reqLog, defaultParams, getLocals,
                   sent, served, outcome>>

\* RestRequest.restGet, wrap up to its call of rest.get(url, parameters=params)
CallBound(b) ==
    /\ pc = "idle"
    /\ calls < MaxCalls
    /\ calls' = calls + 1
    /\ LET rest == 1
           built == WrapParams(b.func.args, b.args, b.func.defaults, 0, EmptyMap)
       IN /\ call' = [NoCall EXCEPT !.op = "restGet", !.site = b.func.name,
                                    !.exec = rest, !.path = b.func.url,
                                    !.argument = built,
                                    !.expected = DEFAULT_EXPECTED,
                                    !.authenticated = FALSE,
                                    !.func = b.func, !.args = b.args,
                                    !.kwargs = b.kwargs]
          /\ params' = built
    /\ pc' = "gate"
    /\ UNCHANGED <<processVars, limiterVars, reqLog, defaultParams, getLocals,
                   sent, served, outcome>>

\* CodeScanning.downloadSARIF up to its call of rest.get: the Accept header
\* is popped and set to the SARIF media type
CallDownload(sarif_id) ==
    /\ pc = "idle"
    /\ calls < MaxCalls
    /\ calls' = calls + 1
    /\ LET rest == 1
           argument == [k \in {"sarif_id"} |-> PyInt(sarif_id)]
       IN /\ call' = [NoCall EXCEPT !.op = "downloadSARIF",
                                    !.site = "downloadSARIF",
                                    !.exec = rest, !.path = PathAnalysis,
                                    !.argument = argument,
                                    !.expected = DEFAULT_EXPECTED,
                                    !.og_accept = headers[rest].Accept]
          /\ headers' = [headers EXCEPT ![rest].Accept = SarifAccept]
          /\ params' = argument
    /\ pc' = "gate"
    /\ UNCHANGED <<token, queries, threads, limiterVars, reqLog, defaultParams,
                   getLocals, sent, served, outcome>>

---------------------------------------------------------------------------
(* The rate limiter: @sleep_and_retry @limits(calls=REST_MAX_CALLS, period=60) *)

\* limits.__period_remaining
PeriodRemaining == RATE_PERIOD - (now - last_reset)

\* limits counts this attempt, after resetting the count when the period is over
Attempts == (IF PeriodRemaining <= 0 THEN 0 ELSE num_calls) + 1

\* `self.num_calls > self.clamped_calls`
OverQuota(n) == n > REST_MAX_CALLS

LimiterCount ==
    /\ num_calls' = Attempts
    /\ last_reset' = IF PeriodRemaining <= 0 THEN now ELSE last_reset

\* The attempt is within the quota: get runs.
GatePass ==
    /\ pc = "gate"
    /\ ~OverQuota(Attempts)
    /\ LimiterCount
    /\ gatePasses' = gatePasses + 1
    /\ pc' = "body"
    /\ UNCHANGED <<processVars, now, sleepFor, reqLog, defaultParams, calls, call,
                   params, getLocals, sent, served, outcome>>

\* The attempt is over the quota: limits raises RateLimitException, which
\* sleep_and_retry catches.
GateLimited ==
    /\ pc = "gate"
    /\ OverQuota(Attempts)
    /\ LimiterCount
    /\ sleepFor' = PeriodRemaining
    /\ pc' = "sleep"
    /\ UNCHANGED <<processVars, now, gatePasses, reqLog, defaultParams, calls, call,
                   params, getLocals, sent, served, outcome>>

\* time.sleep(exception.period_remaining), then the call is tried again
Sleep ==
    /\ pc = "sleep"
    /\ now' = now + sleepFor
    /\ reqLog' = Prune(reqLog, now')
    /\ sleepFor' = 0
    /\ pc' = "gate"
    /\ UNCHANGED <<processVars, num_calls, last_reset, gatePasses, defaultParams,
                   calls, call, params, getLocals, sent, served, outcome>>

\* Time passes between operations, a period at a time
TickStep == RATE_PERIOD
Tick ==
    /\ pc = "idle"
    /\ now + TickStep <= MaxTime
    /\ now' = now + TickStep
    /\ reqLog' = Prune(reqLog, now')
    /\ UNCHANGED <<processVars, num_calls, last_reset, sleepFor, gatePasses,
                   defaultParams, calls, pc, call, params, getLocals, sent, served,
                   outcome>>

---------------------------------------------------------------------------
(* RestRequest.get *)

\* get is over with outcome o: a direct caller has it, the restGet wrapper
\* or downloadSARIF goes on with it.
FinishGet(o) ==
    /\ getOutcome' = o
    /\ IF call.op = "restGet"
       THEN pc' = "wrapped" /\ outcome' = outcome
       ELSE IF call.op = "downloadSARIF"
       THEN pc' = "fetched" /\ outcome' = outcome
       ELSE pc' = "done" /\ outcome' = o

\* `authenticated and not self.session.headers.get("Authorization")`
TokenMissing(e) ==
    ~("Authorization" \in DOMAIN headers[e] /\ StrTruthy(headers[e].Authorization))

\* get before its loop: the repository, the route, the credential, per_page
GetBody ==
    /\ pc = "body"
    /\ LET repo == Repository(call.exec)
           routed == route(call.path, repo, "rest", params)
       IN IF ~RepoSet(repo)
          THEN /\ FinishGet(Raised(ERR_REPOSITORY))
               /\ UNCHANGED <<url, page, params, defaultParams>>
          ELSE IF routed.err /= ""
          THEN /\ FinishGet(Raised(routed.err))
               /\ UNCHANGED <<url, page, params, defaultParams>>
          ELSE IF call.authenticated /\ TokenMissing(call.exec)
          THEN /\ FinishGet(Raised(ERR_TOKEN))
               /\ url' = routed.pieces
               /\ UNCHANGED <<page, params, defaultParams>>
          ELSE /\ url' = routed.pieces
               /\ params' = MapSet(params, "per_page", PyInt(PER_PAGE))
               /\ defaultParams' = IF call.omitted THEN params' ELSE defaultParams
               /\ page' = 1
               /\ pc' = "page"
               /\ UNCHANGED <<getOutcome, outcome>>
    /\ result' = <<>>
    /\ UNCHANGED <<processVars, limiterVars, reqLog, calls, call, sent, served>>

\* HasErrors reading the wrong key: the envelope check never fires
HasErrorsWrongKey(body) == IsDict(body) /\ Truthy(MapGet(body.v, "error"))

\* `isinstance(responce_json, dict) and responce_json.get("errors")`
HasErrors(body) == IsDict(body) /\ Truthy(MapGet(body.v, "errors"))

\* ShortPage off by one: a page of PER_PAGE - 1 elements counts as full
ShortPageOffByOne(body) == PyLen(body) < PER_PAGE - 1

\* `len(responce_json) < RestRequest.PER_PAGE`
ShortPage(body) == PyLen(body) < PER_PAGE

\* Classify without the early return of a single object: the object runs
\* through the pagination branch like a page
ClassifyNoObject(status, body, expected, acc) ==
    IF body = NonJson THEN [next |-> FALSE, out |-> Raised(ERR_JSON)]
    ELSE IF status /= expected
    THEN [next |-> FALSE, out |-> StatusError(status, ERR_STATUS)]
    ELSE IF IsDict(body) /\ Truthy(MapGet(body.v, "errors"))
    THEN [next |-> FALSE, out |-> Raised(ERR_SERVER)]
    ELSE IF PyLen(body) < PER_PAGE
    THEN [next |-> FALSE, out |-> Returned(PyList(acc \o PyIter(body)))]
    ELSE [next |-> TRUE, out |-> NoOutcome]

\* Classify giving back what it has when a later page has the wrong status
ClassifyPartial(status, body, expected, acc) ==
    IF body = NonJson THEN [next |-> FALSE, out |-> Raised(ERR_JSON)]
    ELSE IF status /= expected
    THEN [next |-> FALSE,
          out |-> IF acc = <<>> THEN StatusError(status, ERR_STATUS)
                  ELSE Returned(PyList(acc))]
    ELSE IF HasErrors(body) THEN [next |-> FALSE, out |-> Raised(ERR_SERVER)]
    ELSE IF IsDict(body) THEN [next |-> FALSE, out |-> Returned(body)]
    ELSE IF ShortPage(body)
    THEN [next |-> FALSE, out |-> Returned(PyList(acc \o PyIter(body)))]
    ELSE [next |-> TRUE, out |-> NoOutcome]

\* How get treats one response: raise, return, or go to the next page
Classify(status, body, expected, acc) ==
    IF body = NonJson THEN [next |-> FALSE, out |-> Raised(ERR_JSON)]
    ELSE IF status /= expected
    THEN [next |-> FALSE, out |-> StatusError(status, ERR_STATUS)]
    ELSE IF HasErrors(body) THEN [next |-> FALSE, out |-> Raised(ERR_SERVER)]
    ELSE IF IsDict(body) THEN [next |-> FALSE, out |-> Returned(body)]
    ELSE IF ShortPage(body)
    THEN [next |-> FALSE, out |-> Returned(PyList(acc \o PyIter(body)))]
    ELSE [next |-> TRUE, out |-> NoOutcome]

\* PageParams keeping a page index the mapping already has
PageParamsKeep(p, n) ==
    IF "page" \in DOMAIN p THEN p ELSE MapSet(p, "page", PyInt(n))

\* `params["page"] = page`
PageParams(p, n) == MapSet(p, "page", PyInt(n))

\* One turn of get's loop: the request for `page` and the server's answer
GetPage(status, body) ==
    /\ pc = "page"
    /\ params' = PageParams(params, page)
    /\ defaultParams' = IF call.omitted THEN params' ELSE defaultParams
    /\ sent' = Append(sent, [method |-> "GET", url |-> url, params |-> params',
                             accept |-> headers[call.exec].Accept])
    /\ served' = Append(served, [status |-> status, body |-> body])
    /\ reqLog' = LogAdd(reqLog, now)
    /\ LET c == Classify(status, body, call.expected, result) IN
       IF c.next
       THEN /\ result' = result \o PyIter(body)
            /\ page' = page + 1
            /\ UNCHANGED <<pc, getOutcome, outcome>>
       ELSE /\ FinishGet(c.out)
            /\ result' = IF c.out.kind = "return" /\ ~IsDict(body)
                         THEN result \o PyIter(body) ELSE result
            /\ page' = page
    /\ UNCHANGED <<processVars, limiterVars, calls, call, url>>

---------------------------------------------------------------------------
(* RestRequest.restGet, wrap after rest.get *)

WrapFinish ==
    /\ pc = "wrapped"
    /\ outcome' =
         IF getOutcome.kind = "raise" THEN getOutcome
         ELSE IF DeclaresResponse(call.func)
         THEN LET b == BindCall(call.func, WrapKeywords(getOutcome.value, call.kwargs))
              IN IF b.err /= "" THEN Raised(b.err)
                 ELSE Returned(Body(call.func, b.bound))
         ELSE Returned(getOutcome.value)
    /\ pc' = "done"
    /\ UNCHANGED <<processVars, limiterVars, reqLog, defaultParams, calls, call,
                   params, getLocals, sent, served>>

---------------------------------------------------------------------------
(* CodeScanning.downloadSARIF after rest.get *)

\* An exception of get leaves downloadSARIF at once; otherwise the Accept
\* header is set back, then the file is written.
DownloadFinish(written) ==
    /\ pc = "fetched"
    /\ IF getOutcome.kind = "raise"
       THEN /\ outcome' = getOutcome
            /\ UNCHANGED headers
       ELSE /\ headers' = [headers EXCEPT ![call.exec].Accept = call.og_accept]
            /\ outcome' = IF written THEN Returned(PyTrue) ELSE Raised(ERR_FILE)
    /\ pc' = "done"
    /\ UNCHANGED <<token, queries, threads, limiterVars, reqLog, defaultParams,
                   calls, call, params, getLocals, sent, served>>

---------------------------------------------------------------------------
(* RestRequest.postJson *)

\* How postJson treats the response to its POST
ClassifyPost(status, body, expected) ==
    IF status /= expected THEN StatusError(status, ERR_POST)
    ELSE IF body = NonJson THEN Raised(ERR_JSON)
    ELSE Returned(body)

PostJson(c, status, body) ==
    /\ pc = "idle"
    /\ calls < MaxCalls
    /\ calls' = calls + 1
    /\ call' = [NoCall EXCEPT !.op = "postJson", !.exec = c.exec, !.path = c.path,
                              !.argument = c.data, !.expected = c.expected]
    /\ LET repo == Repository(c.exec)
           routed == route(c.path, repo, "rest", EmptyMap)
       IN IF ~RepoSet(repo)
          THEN /\ outcome' = Raised(ERR_REPOSITORY)
               /\ UNCHANGED <<url, sent, served>>
          ELSE IF routed.err /= ""
          THEN /\ outcome' = Raised(routed.err)
               /\ UNCHANGED <<url, sent, served>>
          ELSE /\ url' = routed.pieces
               /\ sent' = <<[method |-> "POST", url |-> url', params |-> c.data,
                             accept |-> headers[c.exec].Accept]>>
               /\ served' = <<[status |-> status, body |-> body]>>
               /\ outcome' = ClassifyPost(status, body, c.expected)
    /\ pc' = "done"
    /\ UNCHANGED <<processVars, limiterVars, reqLog, defaultParams, params, page,
                   result, getOutcome>>

---------------------------------------------------------------------------
(* GraphQLRequest.query *)

\* `self.queries.get(name)`: the template, or None (held as the empty text)
NoTemplate == [text |-> "", variables |-> {}]
QueryContent(qs, name) == IF name \in DOMAIN qs THEN qs[name] ELSE NoTemplate

\* Unregistered without the early return: every name goes on to the POST
UnregisteredNever(query_content) == FALSE

\* `not query_content`
Unregistered(query_content) == query_content.text = ""

\* Template(query).substitute(**options): KeyError on a $variable left open
formatQuery(template, options) ==
    IF template.variables \subseteq DOMAIN options
    THEN [err |-> "", query |-> [text |-> template.text,
                                 values |-> [v \in template.variables |-> options[v]]]]
    ELSE [err |-> "KeyError", query |-> [text |-> "", values |-> EmptyMap]]

\* `response.status_code != 200`
GraphQLFailed(status) == status /= GRAPHQL_OK

\* ClassifyQuery that takes a top-level `errors` array for a failure
ClassifyQueryStrict(status, body) ==
    IF status /= GRAPHQL_OK THEN Raised(ERR_GRAPHQL)
    ELSE IF body = NonJson THEN Raised(ERR_JSON)
    ELSE IF Truthy(MapGet(body.v, "errors")) THEN Raised(ERR_GRAPHQL)
    ELSE Returned(body)

\* How query treats the response to its POST
ClassifyQuery(status, body) ==
    IF GraphQLFailed(status) THEN Raised(ERR_GRAPHQL)
    ELSE IF body = NonJson THEN Raised(ERR_JSON)
    ELSE Returned(body)

Query(name, options, status, body) ==
    /\ pc = "idle"
    /\ calls < MaxCalls
    /\ calls' = calls + 1
    /\ call' = [NoCall EXCEPT !.op = "query", !.site = name, !.argument = options]
    /\ IF Unregistered(QueryContent(queries, name))
       THEN /\ outcome' = Returned(PyDict(EmptyMap))
            /\ UNCHANGED <<url, sent, served>>
       ELSE LET q == formatQuery(QueryContent(queries, name), options) IN
            IF q.err /= ""
            THEN /\ outcome' = Raised(q.err)
                 /\ UNCHANGED <<url, sent, served>>
            ELSE /\ url' = <<ApiGraphql>>
                 /\ sent' = <<[method |-> "POST", url |-> url', params |-> q.query,
                               accept |-> <<"application/vnd.github.hawkgirl-preview+json">>]>>
                 /\ served' = <<[status |-> status, body |-> body]>>
                 /\ outcome' = ClassifyQuery(status, body)
    /\ pc' = "done"
    /\ UNCHANGED <<processVars, limiterVars, reqLog, defaultParams, params, page,
                   result, getOutcome>>

\* What the server may answer the running call's request for page p
Answers(p) == IF call.op = "downloadSARIF" THEN SarifBodies ELSE RestBodies(p)

---------------------------------------------------------------------------
(* The caller takes the outcome; the operation's locals are gone *)

Return ==
    /\ pc = "done"
    /\ pc' = "idle"
    /\ call' = NoCall
    /\ params' = EmptyMap
    /\ url' = <<>>
    /\ page' = 0
    /\ result' = <<>>
    /\ sent' = <<>>
    /\ served' = <<>>
    /\ gatePasses' = 0
    /\ getOutcome' = NoOutcome
    /\ outcome' = NoOutcome
    /\ UNCHANGED <<processVars, now, num_calls, last_reset, sleepFor, reqLog,
                   defaultParams, calls>>

Next ==
    \/ \E c \in GetCalls : CallGet(c)
    \/ \E b \in BoundCalls : CallBound(b)
    \/ \E sarif_id \in SarifIds : CallDownload(sarif_id)
    \/ GatePass
    \/ GateLimited
    \/ Sleep
    \/ Tick
    \/ GetBody
    \/ \E status \in Statuses : \E body \in Answers(page) : GetPage(status, body)
    \/ WrapFinish
    \/ \E written \in FileWrites : DownloadFinish(written)
    \/ \E c \in PostCalls : \E status \in Statuses : \E body \in PostBodies :
          PostJson(c, status, body)
    \/ \E name \in QueryNames : \E options \in QueryOptions :
          \E status \in Statuses : \E body \in GraphQLBodies :
             Query(name, options, status, body)
    \/ Return

Spec == Init /\ [][Next]_vars

---------------------------------------------------------------------------
(* What the claims speak of *)

\* The running operation went through RestRequest.get
IsGet == call.op \in {"get", "restGet"}

\* get is over: its outcome is with the caller or with the restGet wrapper
GetOver == pc \in {"done", "wrapped"}

LastServed == served[Len(served)]

FullPage(r) ==
    r.status = call.expected /\ r.body.py = "list" /\ Len(r.body.v) = PER_PAGE
PartPage(r) ==
    r.status = call.expected /\ r.body.py = "list" /\ Len(r.body.v) < PER_PAGE

\* The pages the server gave, one after the other
RECURSIVE Concat(_)
Concat(pages) ==
    IF pages = <<>> THEN <<>> ELSE Head(pages).body.v \o Concat(Tail(pages))

---------------------------------------------------------------------------
(* C1 *)

\* C1: when the server answers a get call with k >= 0 full pages of PER_PAGE
\* elements and expected status and then a page of m < PER_PAGE elements, the
\* call is over after k+1 requests and returns the pages concatenated in page
\* order, 100k + m elements; while every page so far was full, the call is
\* not over and asks for the next page.
C1_Pagination ==
    IsGet /\ Len(served) >= 1
          /\ (\A i \in 1..(Len(served) - 1) : FullPage(served[i]))
    =>
    /\ PartPage(LastServed) =>
          /\ GetOver
          /\ Len(sent) = Len(served)
          /\ getOutcome = Returned(PyList(Concat(served)))
          /\ Len(getOutcome.value.v)
                = PER_PAGE * (Len(served) - 1) + Len(LastServed.body.v)
    /\ FullPage(LastServed) =>
          /\ pc = "page"
          /\ page = Len(served) + 1
          /\ Len(sent) = Len(served)
          /\ result = Concat(served)

\* Two full pages and a page of 99 were served and the call has returned
C1_Witness ==
    /\ IsGet /\ GetOver
    /\ Len(served) = 3
    /\ FullPage(served[1]) /\ FullPage(served[2]) /\ PartPage(served[3])
    /\ Len(served[3].body.v) = PER_PAGE - 1

---------------------------------------------------------------------------
(* C2 *)

\* C2: the HTTP GET requests begun within any rolling period of 60 seconds,
\* over all RestRequest instances together, never exceed the quota of 80.
C2_RollingQuota == WindowCount <= REST_MAX_CALLS

---------------------------------------------------------------------------
(* C3 *)

\* C3: a REST call (get or postJson) whose response has status 401 fails with
\* 'Authentication Issue', whatever the body of the response.
C3_Unauthorized ==
    /\ pc = "done"
    /\ call.op \in {"get", "restGet", "postJson"}
    /\ Len(served) >= 1
    /\ LastServed.status = AUTH_STATUS
    => outcome = Raised(ERR_AUTH)

---------------------------------------------------------------------------
(* C4 *)

\* C4: a get call with authenticated=True and no token configured, past the
\* repository and route steps, fails with the token-required error and issues
\* no HTTP request.
C4_TokenRequired ==
    /\ IsGet
    /\ call.authenticated
    /\ token = None
    /\ RepoSet(Repository(call.exec))
    /\ route(call.path, Repository(call.exec), "rest", call.argument).err = ""
    /\ pc \notin {"gate", "sleep", "body"}
    => /\ getOutcome = Raised(ERR_TOKEN)
       /\ sent = <<>>

---------------------------------------------------------------------------
(* C5 *)

\* The value the claim gives parameter n of bound method f called with args
ClaimedParam(f, args, n) ==
    IF Len(args) >= ArgIndex(f, n) - 1 THEN args[ArgIndex(f, n) - 1]
    ELSE DefaultOf(f, n)

\* C5: the parameter map a restGet-bound method passes to get holds, for each
\* declared parameter, the positional argument supplied for it, and the
\* declared default when the argument is omitted.
C5_ParameterMap ==
    call.op = "restGet" =>
       \A n \in Declared(call.func) :
          (Len(call.args) >= ArgIndex(call.func, n) - 1 \/ HasDefault(call.func, n))
          => /\ n \in DOMAIN call.argument
             /\ call.argument[n] = ClaimedParam(call.func, call.args, n)

---------------------------------------------------------------------------
(* C6 *)

\* C6: when the bound method declares `response` and the GET returned, the
\* wrapper returns what the method body makes of the raw GET result bound to
\* `response`.
C6_ResponseHook ==
    /\ pc = "done"
    /\ call.op = "restGet"
    /\ DeclaresResponse(call.func)
    /\ getOutcome.kind = "return"
    => outcome = Returned(Processed(getOutcome.value))

---------------------------------------------------------------------------
(* C7 *)

\* The response get stopped at is an object with the expected status
ObjectServed ==
    /\ IsGet /\ Len(served) >= 1
    /\ LastServed.status = call.expected
    /\ LastServed.body.py = "dict"

\* C7 as claimed: an expected-status response whose body is an object with an
\* `errors` field makes get fail with 'error from server'.
C7_ErrorsField ==
    ObjectServed /\ "errors" \in DOMAIN LastServed.body.v
    => GetOver /\ getOutcome = Raised(ERR_SERVER)

\* C7 as amended: an expected-status response whose body is an object with a
\* non-empty (truthy) `errors` field makes get fail with 'error from server',
\* and no result is returned.
C7_ErrorsTruthy ==
    ObjectServed /\ "errors" \in DOMAIN LastServed.body.v
                 /\ Truthy(LastServed.body.v["errors"])
    => GetOver /\ getOutcome = Raised(ERR_SERVER)

\* The server answered 200-as-expected with an errors envelope
C7_Witness ==
    ObjectServed /\ LastServed.body = ObjErrors /\ GetOver

---------------------------------------------------------------------------
(* C8 *)

---------------------------------------------------------------------------
(* C9 *)

\* The first response has the expected status and is an object without errors
FirstIsObject ==
    /\ IsGet /\ Len(served) >= 1
    /\ served[1].status = call.expected
    /\ served[1].body.py = "dict"
    /\ ~Truthy(MapGet(served[1].body.v, "errors"))

\* C9: when the first response of a get call has the expected status and a
\* single-object body without errors, the call is over after that one HTTP
\* request and returns the object, whatever its size.
C9_SingleObject ==
    FirstIsObject
    => /\ GetOver
       /\ Len(sent) = 1
       /\ getOutcome = Returned(served[1].body)

\* An object with PER_PAGE fields was the first answer
C9_Witness == FirstIsObject /\ served[1].body = ObjBig /\ GetOver

---------------------------------------------------------------------------
(* C10 *)

\* C10: query called with a name that is not in the loaded templates returns
\* the empty result, raises nothing and issues no HTTP request.
C10_UnknownQuery ==
    pc = "done" /\ call.op = "query" /\ call.site \notin DOMAIN queries
    => /\ outcome = Returned(PyDict(EmptyMap))
       /\ sent = <<>>

\* query was called with a name that no template file gave
C10_Witness ==
    pc = "done" /\ call.op = "query" /\ call.site = "GetUnknown"

---------------------------------------------------------------------------
(* Octokit.route as a function of its arguments *)

\* Templates beyond those of the code-scanning methods: one without a leading
\* slash and one that begins with a placeholder.
PathNoSlash ==
    <<Lit("repos/"), Ph("owner"), Lit("/"), Ph("repo"), Lit("/branches")>>
PathFromRef == <<Ph("ref"), Lit("/status")>>

RoutePaths ==
    {PathOrgAlerts, PathAlerts, PathAlert, PathInstances, PathDatabases,
     PathAnalysis, PathNoSlash, PathFromRef}
RouteRepos == {RepoAB, RepoCD}
RouteTypes == {"rest", "graphql", "web"}
RouteOptions ==
    {EmptyMap,
     [k \in {"alert_number"} |-> PyInt(7)],
     [k \in {"alert_number", "state"} |->
         IF k = "state" THEN PyStr("open") ELSE PyInt(7)],
     [k \in {"sarif_id"} |-> PyInt(3)],
     [k \in {"ref"} |-> PyStr("")],
     [k \in {"ref"} |-> PyStr("heads")],
     [k \in {"alert_number", "owner"} |->
         IF k = "owner" THEN PyStr("X") ELSE PyInt(7)]}

\* f"{url}{formatted_path}": the pieces of a string, joined
RECURSIVE JoinStr(_)
JoinStr(pieces) ==
    IF pieces = <<>> THEN "" ELSE Head(pieces) \o JoinStr(Tail(pieces))

\* A caller is about to call Octokit.route(path, repository, rtype, **options)
RouteInit ==
    /\ token = None
    /\ headers = [e \in Execs |-> InitHeaders(token)]
    /\ queries = LoadedQueries
    /\ now = 0
    /\ last_reset = 0
    /\ num_calls = 0
    /\ reqLog = EmptyMap
    /\ defaultParams = EmptyMap
    /\ calls = 0
    /\ pc = "route"
    /\ \E path \in RoutePaths : \E repo \in RouteRepos :
       \E rtype \in RouteTypes : \E options \in RouteOptions :
          call = [op |-> "route", path |-> path, repository |-> repo,
                  rtype |-> rtype, options |-> options]
    /\ params = EmptyMap
    /\ url = <<>>
    /\ page = 0
    /\ result = <<>>
    /\ sent = <<>>
    /\ served = <<>>
    /\ gatePasses = 0
    /\ sleepFor = 0
    /\ getOutcome = NoOutcome
    /\ outcome = NoOutcome
    /\ threads = NoThreads

\* The call: the string route returns, or the exception of str.format
Route ==
    /\ pc = "route"
    /\ LET r == route(call.path, call.repository, call.rtype, call.options) IN
         /\ url' = r.pieces
         /\ outcome' = IF r.err = "" THEN Returned(PyStr(JoinStr(r.pieces)))
                       ELSE Raised(r.err)
    /\ pc' = "routed"
    /\ UNCHANGED <<processVars, limiterVars, reqLog, defaultParams, calls, call,
                   params, page, result, sent, served, getOutcome>>

RouteNext == Route

SpecRoute == RouteInit /\ [][RouteNext]_vars

---------------------------------------------------------------------------
(* C11 *)

\* The value the claim gives a placeholder
ClaimValue(name, repo, extras) ==
    IF name \in {"owner", "org"} THEN repo.owner
    ELSE IF name = "repo" THEN repo.repo
    ELSE PyToStr(extras[name])

\* The template with every placeholder replaced by its value
RECURSIVE Substituted(_, _, _)
Substituted(template, repo, extras) ==
    IF template = <<>> THEN ""
    ELSE LET first == Head(template) IN
         (IF IsPh(first) THEN ClaimValue(first.ph, repo, extras) ELSE first.lit)
            \o Substituted(Tail(template), repo, extras)

AllSupplied(template, extras) ==
    \A i \in 1..Len(template) :
        IsPh(template[i]) => template[i].ph \in ContextKeys \cup DOMAIN extras

Origin(rtype) == IF rtype = "rest" THEN ApiRest ELSE ApiGraphql

\* The template is written with a leading slash
TemplateHasSlash(template) == template /= <<>> /\ template[1] = Lit("/")

\* The substituted path begins with a slash: the template does, or what
\* stands before its first slash is empty
RECURSIVE PathHasSlash(_, _, _)
PathHasSlash(template, repo, extras) ==
    /\ template /= <<>>
    /\ \/ Head(template) = Lit("/")
       \/ /\ Substituted(<<Head(template)>>, repo, extras) = ""
          /\ PathHasSlash(Tail(template), repo, extras)

---------------------------------------------------------------------------
(* C12 *)

\* C12: within one get call every HTTP GET has its own pass through the
\* limiter's gate before it: the call never has sent more requests than it has
\* passed the gate.
C12_GatePerRequest == IsGet => Len(sent) <= gatePasses

---------------------------------------------------------------------------
(* C13 *)

\* The i-th response of the call has a status other than the expected one
BadStatus(i) == served[i].status /= call.expected

\* C13: when a page of a get call, the first or a later one, has a status
\* other than the expected, that request is the call's last one and get is
\* over with a failure: nothing accumulated from earlier pages is returned
\* and no request follows.
C13_FailFast ==
    IsGet =>
        \A i \in 1..Len(served) :
            BadStatus(i) =>
                /\ i = Len(served)
                /\ Len(sent) = i
                /\ GetOver
                /\ getOutcome.kind = "raise"
                /\ (pc = "done" => outcome.kind = "raise")

\* A full page was accumulated, then the second page came with another status
C13_Witness ==
    /\ IsGet /\ GetOver
    /\ Len(served) = 2
    /\ FullPage(served[1])
    /\ BadStatus(2) /\ served[2].body.py = "list"
    /\ result /= <<>>
    /\ getOutcome.kind = "raise"

---------------------------------------------------------------------------
(* C14 *)

\* C14: the first page's shape decides the kind of result: when get returns
\* after a first page that was an array, the result is the sequence of the
\* elements of the pages; after a first page that was an object, it is that
\* object.
C14_FirstShape ==
    (IsGet /\ GetOver /\ getOutcome.kind = "return" /\ Len(served) >= 1) =>
        /\ served[1].body.py = "list" =>
              getOutcome.value = PyList(result)
        /\ IsDict(served[1].body) => getOutcome.value = served[1].body

---------------------------------------------------------------------------
(* C15 *)

DefaultAccept == InitHeaders(token).Accept

\* C15: once downloadSARIF has finished, returned or failed, the Accept header
\* of its session has the value it had before the call, and a later request
\* on that session that is not the download's own is sent with the default
\* JSON media type.
C15_AcceptRestored ==
    /\ (call.op = "downloadSARIF" /\ pc = "done") =>
          headers[call.exec].Accept = call.og_accept
    /\ IsGet =>
          \A i \in 1..Len(sent) : sent[i].accept = DefaultAccept

---------------------------------------------------------------------------
(* RestRequest.get called from several threads *)

\* The decorators sit on the function RestRequest.get, so every thread and
\* every RestRequest instance of the process counts in the same limiter.
\* Threads call get again and again; what get does once past the gate is one
\* step here.
NThreads == 2
Threads == 1..NThreads

ThreadsInit ==
    /\ token = None
    /\ headers = [e \in Execs |-> InitHeaders(token)]
    /\ queries = LoadedQueries
    /\ now = 0
    /\ last_reset = 0
    /\ num_calls \in WarmCalls
    /\ reqLog = EmptyMap
    /\ defaultParams = EmptyMap
    /\ calls = 0
    /\ pc = "threads"
    /\ call = NoCall
    /\ params = EmptyMap
    /\ url = <<>>
    /\ page = 0
    /\ result = <<>>
    /\ sent = <<>>
    /\ served = <<>>
    /\ gatePasses = 0
    /\ sleepFor = 0
    /\ getOutcome = NoOutcome
    /\ outcome = NoOutcome
    /\ threads = [t \in Threads |-> [pc |-> "idle", sleepFor |-> 0]]

threadFrame ==
    <<token, headers, queries, reqLog, defaultParams, calls, pc, call, params,
      url, page, result, sent, served, gatePasses, sleepFor, getOutcome, outcome>>

\* Thread t calls get: it enters sleep_and_retry
ThreadCall(t) ==
    /\ threads[t].pc = "idle"
    /\ threads' = [threads EXCEPT ![t].pc = "gate"]
    /\ UNCHANGED <<threadFrame, now, num_calls, last_reset>>

\* limits lets the attempt of thread t through
ThreadPass(t) ==
    /\ threads[t].pc = "gate"
    /\ ~OverQuota(Attempts)
    /\ LimiterCount
    /\ threads' = [threads EXCEPT ![t].pc = "body"]
    /\ UNCHANGED <<threadFrame, now>>

\* limits raises RateLimitException in thread t; sleep_and_retry catches it
ThreadLimited(t) ==
    /\ threads[t].pc = "gate"
    /\ OverQuota(Attempts)
    /\ LimiterCount
    /\ threads' = [threads EXCEPT ![t].pc = "sleep", ![t].sleepFor = PeriodRemaining]
    /\ UNCHANGED <<threadFrame, now>>

\* time.sleep of thread t is over: the loop of sleep_and_retry tries again
ThreadWake(t) ==
    /\ threads[t].pc = "sleep"
    /\ threads[t].sleepFor <= 0
    /\ threads' = [threads EXCEPT ![t].pc = "gate", ![t].sleepFor = 0]
    /\ UNCHANGED <<threadFrame, now, num_calls, last_reset>>

\* get runs in thread t, requests and all, and returns to its caller
ThreadRun(t) ==
    /\ threads[t].pc = "body"
    /\ threads' = [threads EXCEPT ![t].pc = "idle"]
    /\ UNCHANGED <<threadFrame, now, num_calls, last_reset>>

\* The clock goes on by TickStep. The limiter reads only now - last_reset
\* and only up to the period, so the clock is kept relative to last_reset and
\* stands at the end of the period until a reset.
TimePasses ==
    /\ now - last_reset < RATE_PERIOD
    /\ last_reset' = 0
    /\ now' = IF now - last_reset + TickStep < RATE_PERIOD
              THEN now - last_reset + TickStep ELSE RATE_PERIOD
    /\ threads' = [t \in Threads |->
                     [threads[t] EXCEPT !.sleepFor =
                         IF @ > TickStep THEN @ - TickStep ELSE 0]]
    /\ UNCHANGED <<threadFrame, num_calls>>

ThreadsNext ==
    \/ \E t \in Threads : ThreadCall(t)
    \/ \E t \in Threads : ThreadPass(t)
    \/ \E t \in Threads : ThreadLimited(t)
    \/ \E t \in Threads : ThreadWake(t)
    \/ \E t \in Threads : ThreadRun(t)
    \/ TimePasses

\* Every thread that can take a step of its own takes one, and time goes on;
\* nothing makes callers call.
ThreadsFair ==
    /\ \A t \in Threads :
          /\ WF_vars(ThreadPass(t) \/ ThreadLimited(t))
          /\ WF_vars(ThreadWake(t))
          /\ WF_vars(ThreadRun(t))
    /\ WF_vars(TimePasses)

SpecThreads == ThreadsInit /\ [][ThreadsNext]_vars /\ ThreadsFair

---------------------------------------------------------------------------
(* C16 *)

\* C16: the limiter only delays: a call of get that the limiter holds back,
\* in whatever thread, gets through the gate in the end and runs.
C16_EventuallyPasses ==
    \A t \in Threads : (threads[t].pc = "sleep") ~> (threads[t].pc = "body")

---------------------------------------------------------------------------
(* C17 *)

\* C17: the requests of a get call carry per_page = PER_PAGE and the page
\* indices 1, 2, 3, ... in the order sent, whatever the mapping held before:
\* a page or per_page of the caller, or what an earlier call left in the
\* shared default mapping.
C17_PageIndices ==
    (IsGet \/ call.op = "downloadSARIF") =>
        \A i \in 1..Len(sent) :
            /\ MapGet(sent[i].params, "per_page") = PyInt(PER_PAGE)
            /\ MapGet(sent[i].params, "page") = PyInt(i)

\* A caller gave page = 5 and per_page = 30; get has asked for pages 1 and 2
C17_Witness ==
    /\ call.op = "get"
    /\ MapGet(call.argument, "page") = PyInt(5)
    /\ MapGet(call.argument, "per_page") = PyInt(30)
    /\ Len(sent) = 2
    /\ sent[2].params["page"] = PyInt(2)

---------------------------------------------------------------------------
(* C18 *)

\* C18: the get call made by the wrapper of a method bound with
\* restGet(url, authenticated) has `authenticated` equal to the flag of the
\* binding, so a method bound with authenticated = True and called with no
\* credential configured fails before any request.
C18_FlagPassed ==
    call.op = "restGet" =>
        /\ call.authenticated = call.func.authenticated
        /\ (call.func.authenticated /\ token = None) => sent = <<>>

---------------------------------------------------------------------------
(* C19 *)

\* The call of getAlertsInPR: getAlerts("open", ref=self.repository.reference)
InPRCall ==
    /\ call.op = "restGet"
    /\ call.func = GetAlertsFunc
    /\ call.args = <<PyStr("open")>>
    /\ DOMAIN call.kwargs = {"ref"}

\* C19: every request of getAlerts("open", ref=reference) has state = "open"
\* and ref = the reference in its parameter map.
C19_KeywordReaches ==
    InPRCall =>
        \A i \in 1..Len(sent) :
            /\ MapGet(sent[i].params, "state") = PyStr("open")
            /\ MapGet(sent[i].params, "ref") = call.kwargs["ref"]

---------------------------------------------------------------------------
(* C20 *)

\* The mapping object the caller handed to get is the one get names `params`
\* (`params = parameters`): what it holds now is what the caller sees.
CallerMapping == params

\* C20: after get returned or failed, the mapping its caller supplied has the
\* keys and values it had before the call.
C20_MappingUnchanged ==
    (call.op = "get" /\ ~call.omitted /\ GetOver) => CallerMapping = call.argument

====
